---- MODULE Spec2Model ----
(***************************************************************************)
(* A model of trie-completer.js: a ternary search trie with prefix         *)
(* completion.  Strings are sequences of character codes; the trie is the  *)
(* tree of Node objects hanging off this.root.  The constructor's loop and *)
(* addCompletion are actions; contains and getCompletions, which read the  *)
(* trie and change nothing, are operators on this.root.                    *)
(***************************************************************************)
EXTENDS Integers, Sequences, FiniteSets, TLC

\* ------------------------------------------------------------------ bounds
MaxLen == 2      \* longest string used as a completion, prefix or query
MaxInput == 2    \* longest array handed to the constructor
MaxStored == 3   \* most distinct strings a trie is grown to
MaxLimit == 2    \* largest limit handed to getCompletions

Chars == {97, 98}   \* the character codes of "a" and "b"

\* Every string over Chars of length lo..hi.
StringsOfLen(lo, hi) == UNION {[1..n -> Chars] : n \in lo..hi}
Strings == StringsOfLen(1, MaxLen)          \* the non-empty strings
AnyString == StringsOfLen(0, MaxLen)        \* the empty string included

\* ------------------------------------------------------------ JS values
NULL == <<>>          \* null / undefined object reference (falsy)
NoChar == -1          \* s[d] for d outside the string: undefined
NoLimit == 0          \* a falsy limit argument: undefined (or 0)
NoIndex == -1         \* let index; before the first draw: undefined
JsTrue == "true"
JsFalse == "false"
JsNull == "null"
JsBoolean == {JsTrue, JsFalse}

\* completion[d], d counted from 0 as in the source.
charAt(s, d) == IF d + 1 \in 1..Len(s) THEN s[d + 1] ELSE NoChar

\* c < node.c and c > node.c on single characters; any comparison with
\* undefined is false.
Lt(a, b) == a # NoChar /\ b # NoChar /\ a < b
Gt(a, b) == a # NoChar /\ b # NoChar /\ a > b

\* new Node()
Node ==
  [c |-> NoChar, left |-> NULL, mid |-> NULL, right |-> NULL,
   completion |-> JsNull, isCompletion |-> JsNull]

\* ---------------------------------------------------------------- mutants
\* _put with the two comparisons sending the character the wrong way.
RECURSIVE _putSwapped(_, _, _)
_putSwapped(node, completion, d) ==
  LET c == charAt(completion, d)
      n == IF node = NULL THEN [Node EXCEPT !.c = c] ELSE node
  IN  IF Lt(c, n.c) THEN [n EXCEPT !.right = _putSwapped(n.right, completion, d)]
      ELSE IF Gt(c, n.c) THEN [n EXCEPT !.left = _putSwapped(n.left, completion, d)]
      ELSE IF d < Len(completion) - 1
        THEN [n EXCEPT !.mid = _putSwapped(n.mid, completion, d + 1)]
      ELSE [n EXCEPT !.isCompletion = JsTrue]

\* _put marking the end of the string on a fresh node, whatever was there.
RECURSIVE _putReplace(_, _, _)
_putReplace(node, completion, d) ==
  LET c == charAt(completion, d)
      n == IF node = NULL THEN [Node EXCEPT !.c = c] ELSE node
  IN  IF Lt(c, n.c) THEN [n EXCEPT !.left = _putReplace(n.left, completion, d)]
      ELSE IF Gt(c, n.c) THEN [n EXCEPT !.right = _putReplace(n.right, completion, d)]
      ELSE IF d < Len(completion) - 1
        THEN [n EXCEPT !.mid = _putReplace(n.mid, completion, d + 1)]
      ELSE [Node EXCEPT !.c = c, !.isCompletion = JsTrue]

\* ------------------------------------------------------------------ _put
RECURSIVE _put(_, _, _)
_put(node, completion, d) ==
  LET c == charAt(completion, d)
      n == IF node = NULL THEN [Node EXCEPT !.c = c] ELSE node
  IN  IF Lt(c, n.c) THEN [n EXCEPT !.left = _put(n.left, completion, d)]
      ELSE IF Gt(c, n.c) THEN [n EXCEPT !.right = _put(n.right, completion, d)]
      ELSE IF d < Len(completion) - 1
        THEN [n EXCEPT !.mid = _put(n.mid, completion, d + 1)]
      ELSE [n EXCEPT !.isCompletion = JsTrue]

\* ------------------------------------------------------------------ _get
RECURSIVE _get(_, _, _)
_get(node, prefix, d) ==
  IF node = NULL THEN NULL
  ELSE LET c == charAt(prefix, d)
       IN  IF Lt(c, node.c) THEN _get(node.left, prefix, d)
           ELSE IF Gt(c, node.c) THEN _get(node.right, prefix, d)
           ELSE IF d < Len(prefix) - 1 THEN _get(node.mid, prefix, d + 1)
           ELSE node

\* contains answering for the node's existence instead of its flag.
containsAnyNode(rt, completion) ==
  IF _get(rt, completion, 0) = NULL THEN JsFalse ELSE JsTrue

\* this.contains: false when no node, else the node's isCompletion field.
contains(rt, completion) ==
  LET node == _get(rt, completion, 0)
  IN  IF node = NULL THEN JsFalse ELSE node.isCompletion

\* addCompletion counting every call.
addCompletionAlways(t, completion) ==
  [size |-> t.size + 1, root |-> _put(t.root, completion, 0)]

\* this.addCompletion on the trie t = [root, size].
addCompletion(t, completion) ==
  [size |-> IF contains(t.root, completion) # JsTrue THEN t.size + 1 ELSE t.size,
   root |-> _put(t.root, completion, 0)]

\* collectCompletions testing the limit with > instead of ==.
RECURSIVE collectCompletionsPast(_, _, _, _)
collectCompletionsPast(node, prefix, completions, limit) ==
  IF limit # NoLimit /\ Len(completions) > limit THEN completions
  ELSE
    LET own == IF node.isCompletion = JsTrue
                 THEN Append(completions, Append(prefix, node.c))
                 ELSE completions
        l == IF node.left # NULL
               THEN collectCompletionsPast(node.left, prefix, own, limit)
               ELSE own
        m == IF node.mid # NULL
               THEN collectCompletionsPast(node.mid, Append(prefix, node.c), l, limit)
               ELSE l
    IN  IF node.right # NULL
          THEN collectCompletionsPast(node.right, prefix, m, limit)
          ELSE m

\* ---------------------------------------------------- collectCompletions
RECURSIVE collectCompletions(_, _, _, _)
collectCompletions(node, prefix, completions, limit) ==
  IF limit # NoLimit /\ Len(completions) = limit THEN completions
  ELSE
    LET own == IF node.isCompletion = JsTrue
                 THEN Append(completions, Append(prefix, node.c))
                 ELSE completions
        l == IF node.left # NULL
               THEN collectCompletions(node.left, prefix, own, limit)
               ELSE own
        m == IF node.mid # NULL
               THEN collectCompletions(node.mid, Append(prefix, node.c), l, limit)
               ELSE l
    IN  IF node.right # NULL
          THEN collectCompletions(node.right, prefix, m, limit)
          ELSE m

\* getCompletions forgetting that the prefix itself may be stored.
getCompletionsNoSelf(rt, prefix, limit) ==
  IF prefix = <<>> THEN <<>>
  ELSE
    LET prefixNode == _get(rt, prefix, 0)
    IN  IF prefixNode = NULL \/ prefixNode.mid = NULL THEN <<>>
        ELSE collectCompletions(prefixNode.mid, prefix, <<>>, limit)

\* this.getCompletions
getCompletions(rt, prefix, limit) ==
  IF prefix = <<>> THEN <<>>
  ELSE
    LET prefixNode == _get(rt, prefix, 0)
    IN  IF prefixNode = NULL THEN <<>>
        ELSE
          LET completions == IF prefixNode.isCompletion = JsTrue
                               THEN <<prefix>> ELSE <<>>
          IN  IF prefixNode.mid = NULL THEN completions
              ELSE collectCompletions(prefixNode.mid, prefix, completions, limit)

\* ------------------------------------------------------------------ state
VARIABLES
  root,              \* this.root
  size,              \* this.size
  completions,       \* the constructor's argument
  indexCache,        \* _constructor: the indices already drawn
  index,             \* getRandomIndex: the last index drawn
  totalCompletions,  \* _constructor: insertions made so far
  pc,                \* where the constructor is: "loop", "done"; then "ready"
  had,               \* history: what contains(s) gave in the last addCompletion(s)
  added,             \* history: the set of strings handed to addCompletion
  calls              \* history: the input positions the constructor inserted, in order

vars == <<root, size, completions, indexCache, index, totalCompletions, pc,
          had, added, calls>>

NoCall == "none"      \* had before any addCompletion call

\* getRandomInt never reaching max - 1.
getRandomIntShort(min, max) == min..(max - 2)

\* getRandomInt(min, max): floor(random * (max - min)) + min, random in [0, 1)
getRandomInt(min, max) == min..(max - 1)

Init ==
  /\ completions \in UNION {[1..n -> Strings] : n \in 0..MaxInput}
  /\ root = NULL
  /\ size = 0
  /\ indexCache = {}
  /\ index = NoIndex
  /\ totalCompletions = 0
  /\ pc = "loop"
  /\ had = NoCall
  /\ added = {}
  /\ calls = <<>>

\* while (totalCompletions < completions.length) with the test true, and one
\* turn of getRandomIndex's do/while drawing i; once i is fresh, the rest of
\* the loop body: addCompletion(completions[i]); totalCompletions++.
Draw(i) ==
  /\ pc = "loop"
  /\ totalCompletions < Len(completions)
  /\ i \in getRandomInt(0, Len(completions))
  /\ index' = i
  /\ IF i \in indexCache
       THEN UNCHANGED <<root, size, indexCache, totalCompletions, had, added, calls>>
       ELSE LET s == completions[i + 1]
                t == addCompletion([root |-> root, size |-> size], s)
            IN  /\ indexCache' = indexCache \cup {i}
                /\ had' = contains(root, s)
                /\ root' = t.root
                /\ size' = t.size
                /\ added' = added \cup {s}
                /\ calls' = Append(calls, i)
                /\ totalCompletions' = totalCompletions + 1
  /\ UNCHANGED <<completions, pc>>

\* while (totalCompletions < completions.length) with the test false.
LoopExit ==
  /\ pc = "loop"
  /\ ~(totalCompletions < Len(completions))
  /\ pc' = "done"
  /\ UNCHANGED <<root, size, completions, indexCache, index, totalCompletions,
                 had, added, calls>>

\* indexCache = undefined; _constructor returns and its locals go away.
Return ==
  /\ pc = "done"
  /\ pc' = "ready"
  /\ indexCache' = {}
  /\ index' = NoIndex
  /\ completions' = <<>>
  /\ calls' = <<>>
  /\ totalCompletions' = 0
  /\ UNCHANGED <<root, size, had, added>>

\* completer.addCompletion(s)
AddCompletion(s) ==
  /\ pc = "ready"
  /\ s \in added \/ Cardinality(added) < MaxStored
  /\ LET t == addCompletion([root |-> root, size |-> size], s)
     IN  /\ root' = t.root
         /\ size' = t.size
  /\ had' = contains(root, s)
  /\ added' = added \cup {s}
  /\ UNCHANGED <<completions, indexCache, index, totalCompletions, pc, calls>>

Next ==
  \/ LoopExit
  \/ \E i \in 0..(MaxInput - 1) : Draw(i)
  \/ Return
  \/ \E s \in Strings : AddCompletion(s)

Spec == Init /\ [][Next]_vars

\* The constructor alone, with the scheduling its termination rests on: the
\* loop test always runs, and Math.random keeps producing every index.
CtorNext ==
  \/ LoopExit
  \/ \E i \in 0..(MaxInput - 1) : Draw(i)
  \/ Return

CtorSpec ==
  /\ Init
  /\ [][CtorNext]_vars
  /\ WF_vars(LoopExit)
  /\ WF_vars(Return)
  /\ \A i \in 0..(MaxInput - 1) : SF_vars(Draw(i))

\* ------------------------------------------------------- auxiliary notions
Range(seq) == {seq[i] : i \in 1..Len(seq)}
Min(a, b) == IF a < b THEN a ELSE b

\* p is an initial segment of s.
IsPrefix(p, s) == Len(p) <= Len(s) /\ SubSeq(s, 1, Len(p)) = p

\* s sorts strictly before t in character-code order.
LexLt(s, t) ==
  \E i \in 1..(Len(s) + 1) :
    /\ \A j \in 1..(i - 1) : j <= Len(t) /\ s[j] = t[j]
    /\ \/ i = Len(s) + 1 /\ i <= Len(t)
       \/ i <= Len(s) /\ i <= Len(t) /\ s[i] < t[i]

StrictlyAscending(seq) == \A i \in 1..(Len(seq) - 1) : LexLt(seq[i], seq[i + 1])

\* Every node of the tree under node.
RECURSIVE Nodes(_)
Nodes(node) ==
  IF node = NULL THEN {}
  ELSE {node} \cup Nodes(node.left) \cup Nodes(node.mid) \cup Nodes(node.right)

\* The nodes reached from node through left and right links only.
RECURSIVE Siblings(_)
Siblings(node) ==
  IF node = NULL THEN {}
  ELSE {node} \cup Siblings(node.left) \cup Siblings(node.right)

\* The number of nodes under node whose isCompletion is true.
RECURSIVE CountCompletions(_)
CountCompletions(node) ==
  IF node = NULL THEN 0
  ELSE (IF node.isCompletion = JsTrue THEN 1 ELSE 0)
       + CountCompletions(node.left) + CountCompletions(node.mid)
       + CountCompletions(node.right)

\* A step in which addCompletion(s) is called, by the constructor or directly.
AddStep(s) ==
  \/ AddCompletion(s)
  \/ \E i \in 0..(Len(completions) - 1) :
       i \notin indexCache /\ completions[i + 1] = s /\ Draw(i)

\* ------------------------------------------------------------------ claims

\* C1: for every non-empty prefix p, getCompletions(p) without a limit is
\* strictly ascending in character-code order.
C1_Ascending ==
  \A p \in Strings : StrictlyAscending(getCompletions(root, p, NoLimit))

\* C2: for every non-empty prefix p, getCompletions(p) without a limit holds
\* exactly the added strings that start with p, each of them once.
C2_ExactPrefixSet ==
  \A p \in Strings :
    LET r == getCompletions(root, p, NoLimit)
    IN  /\ Range(r) = {s \in added : IsPrefix(p, s)}
        /\ Cardinality(Range(r)) = Len(r)

\* A prefix that is itself stored, has a stored extension, and leaves some
\* stored string out.
C2_Witness ==
  \E p \in Strings :
    LET r == getCompletions(root, p, NoLimit)
    IN  /\ Len(r) >= 2
        /\ p \in Range(r)
        /\ \E s \in added : ~IsPrefix(p, s)

\* C3: for every non-empty s, contains(s) is true exactly when s was handed
\* to addCompletion (added only grows, so a contained string stays contained).
C3_Membership ==
  \A s \in Strings : (contains(root, s) = JsTrue) <=> (s \in added)

\* A string never added whose node exists (a strict prefix of a stored
\* string), next to a stored string and its never-added extension.
C3_Witness ==
  /\ \E s \in Strings \ added : _get(root, s, 0) # NULL
  /\ \E s \in added, e \in Strings \ added : IsPrefix(s, e)

\* C4: for every non-empty prefix p and limit k >= 1, getCompletions(p, k)
\* has at most k elements and is the first min(k, n) elements of the
\* unlimited result of length n.
C4_Limit ==
  \A p \in Strings :
    LET full == getCompletions(root, p, NoLimit)
    IN  \A k \in 1..MaxLimit :
          LET r == getCompletions(root, p, k)
          IN  /\ Len(r) <= k
              /\ r = SubSeq(full, 1, Min(k, Len(full)))

\* A limit that cuts the result short.
C4_Witness ==
  \E p \in Strings, k \in 1..MaxLimit :
    /\ Len(getCompletions(root, p, NoLimit)) > k
    /\ Len(getCompletions(root, p, k)) = k

\* C5: size is the number of distinct strings added so far and the number of
\* nodes marked isCompletion; so a new string adds one and a repeat adds none.
C5_Size ==
  /\ size = Cardinality(added)
  /\ size = CountCompletions(root)

\* A repeated string has just been added to a trie of two strings.
C5_Witness ==
  /\ had = JsTrue
  /\ size = 2

\* C6: addCompletion(s) of an s already contained changes neither the nodes,
\* nor size, nor the result of any contains or getCompletions call.
C6_Idempotent ==
  [][(\E s \in Strings : contains(root, s) = JsTrue /\ AddStep(s)) =>
       /\ root' = root
       /\ size' = size
       /\ \A t \in AnyString : contains(root', t) = contains(root, t)
       /\ \A p \in AnyString, k \in 0..MaxLimit :
            getCompletions(root', p, k) = getCompletions(root, p, k)]_vars

\* A contained string has just been added again, to a trie in which a stored
\* string has stored extensions.
C6_Witness ==
  /\ had = JsTrue
  /\ \E n \in Nodes(root) : n.isCompletion = JsTrue /\ n.mid # NULL

\* C7: contains("") does not report the empty string as contained (stated
\* leniently: any answer but true passes).
C7_EmptyNotContained == contains(root, <<>>) # JsTrue

\* C8: contains(s) is one of the booleans true and false for every s.
C8_Boolean == \A s \in Strings : contains(root, s) \in JsBoolean

\* C9: under fair drawing the constructor reaches the end of its loop, and
\* then addCompletion has been called once for each position 0..n-1; no
\* position outside 0..n-1 is ever used.
C9_Construction ==
  /\ <>(pc = "done")
  /\ [](pc = "done" =>
          /\ Len(calls) = Len(completions)
          /\ \A i \in 0..(Len(completions) - 1) :
               Cardinality({j \in 1..Len(calls) : calls[j] = i}) = 1
          /\ added = Range(completions))
  /\ [](\A j \in 1..Len(calls) : calls[j] \in 0..(Len(completions) - 1))

\* The loop has ended having inserted two positions in the reverse of their
\* input order.
C9_Witness ==
  /\ pc = "done"
  /\ Len(calls) = 2
  /\ calls[1] > calls[2]

\* C10: in every node, the characters reached from its left child through
\* left/right links are smaller than its own, those from its right child
\* greater.
C10_SearchOrder ==
  \A n \in Nodes(root) :
    /\ \A x \in Siblings(n.left) : x.c < n.c
    /\ \A x \in Siblings(n.right) : x.c > n.c

\* A trie with both a left and a right link in use.
C10_Witness ==
  /\ \E n \in Nodes(root) : n.left # NULL
  /\ \E n \in Nodes(root) : n.right # NULL

====
